---- MODULE Spec2Model ----
(***************************************************************************)
(* A model of tinder-bot: the window locator, the coordinate guard, the    *)
(* capture orchestrator, the image stitcher and the like/pass response     *)
(* parser.  Strings are TLA+ strings handled character by character with   *)
(* Head, Tail, SubSeq, Len and \o, so that formatting and parsing are      *)
(* modelled by what the Python code does.                                  *)
(***************************************************************************)
EXTENDS Integers, Sequences, FiniteSets, TLC

VARIABLES
    ENVIRONMENT,      \* scroll.ENVIRONMENT / window.ENVIRONMENT (os.getenv at import)
    SCREEN_WIDTH,     \* scroll.SCREEN_WIDTH
    SCREEN_HEIGHT,    \* scroll.SCREEN_HEIGHT
    pc,               \* position of the running operation
    args,             \* arguments of the function under call
    ret,              \* what the function under call returned or raised
    num_scrolls,      \* capture_and_stitch_profile: num_scrolls
    bbox,             \* process_single_profile: bbox
    screenshot_paths, \* capture_and_stitch_profile: screenshot_paths
    timestamp,        \* capture_and_stitch_profile: timestamp
    loop_i,           \* capture_and_stitch_profile: loop variable i
    events,           \* pointer, scroll, delay and capture events issued so far
    cs_ret,           \* what capture_and_stitch_profile handed to its caller
    ps_ret,           \* what process_single_profile handed to its caller
    run               \* cli.run in like mode: clock, deadline, loop state

vars == <<ENVIRONMENT, SCREEN_WIDTH, SCREEN_HEIGHT, pc, args, ret, num_scrolls,
          bbox, screenshot_paths, timestamp, loop_i, events, cs_ret, ps_ret,
          run>>

-----------------------------------------------------------------------------
(* Bounds of the model *)

MaxImages == 6      \* longest list handed to stitch_images on its own
MaxScrolls == 4     \* largest num_scrolls given to the capture orchestrator
MaxIterations == 2  \* largest num_iterations of a run in like mode
MaxDuration == 1    \* longest duration of a run, in minutes
MaxAmount == 45     \* largest scroll amount of a stepped scroll on its own
MaxOpenerLength == 204  \* longest opener handed to send_opener

-----------------------------------------------------------------------------
(* Python values *)

None == "None"

Min(a, b) == IF a < b THEN a ELSE b
Max(a, b) == IF a > b THEN a ELSE b

-----------------------------------------------------------------------------
(* Python string operations, character by character *)

DigitChars == <<"0", "1", "2", "3", "4", "5", "6", "7", "8", "9">>

\* the decimal digit character of d in 0..9
DigitChar(d) == DigitChars[d + 1]

\* the value of a decimal digit character
DigitVal(c) == CHOOSE d \in 0..9 : DigitChars[d + 1] = c

IsDigitChar(c) == \E d \in 0..9 : DigitChars[d + 1] = c

\* the character of s at position i (1-based)
CharAt(s, i) == SubSeq(s, i, i)

\* str.isdigit(): non-empty and made of digits only
isdigit(s) == s /= "" /\ \A i \in 1..Len(s) : IsDigitChar(CharAt(s, i))

RECURSIVE Pow10(_)
Pow10(k) == IF k = 0 THEN 1 ELSE 10 * Pow10(k - 1)

RECURSIVE SumDigits(_, _)
SumDigits(s, i) ==
    IF i > Len(s) THEN 0
    ELSE DigitVal(CharAt(s, i)) * Pow10(Len(s) - i) + SumDigits(s, i + 1)

\* int(s) of a digit string
int(s) == SumDigits(s, 1)

RECURSIVE str(_)
\* str(n) / f"{n}" of a natural number
str(n) == IF n < 10 THEN DigitChar(n)
          ELSE str(n \div 10) \o DigitChar(n % 10)

\* the pieces of s between the separator positions in P
SplitAt(s, P) ==
    LET m == Cardinality(P)
        pos(k) == IF k = 0 THEN 0
                  ELSE IF k = m + 1 THEN Len(s) + 1
                  ELSE CHOOSE i \in P : Cardinality({j \in P : j < i}) = k - 1
    IN  [k \in 1..(m + 1) |-> SubSeq(s, pos(k - 1) + 1, pos(k) - 1)]

\* s.split(sep) for a one-character separator
split(s, sep) ==
    CHOOSE parts \in {SplitAt(s, P) :
                        P \in {{i \in 1..Len(s) : CharAt(s, i) = sep}}} : TRUE

WhitespaceChars == {" ", "\n", "\t", "\r"}

\* s.strip()
strip(s) ==
    LET keep == {i \in 1..Len(s) : CharAt(s, i) \notin WhitespaceChars}
    IN  IF keep = {} THEN ""
        ELSE SubSeq(s, CHOOSE i \in keep : \A j \in keep : i <= j,
                       CHOOSE i \in keep : \A j \in keep : i >= j)

LowerChars == "abcdefghijklmnopqrstuvwxyz"
UpperChars == "ABCDEFGHIJKLMNOPQRSTUVWXYZ"

UpperChar(c) ==
    IF \E k \in 1..26 : CharAt(LowerChars, k) = c
    THEN CharAt(UpperChars, CHOOSE k \in 1..26 : CharAt(LowerChars, k) = c)
    ELSE c

RECURSIVE UpperFrom(_, _)
UpperFrom(s, i) == IF i > Len(s) THEN ""
                   ELSE UpperChar(CharAt(s, i)) \o UpperFrom(s, i + 1)

\* s.upper()
upper(s) == UpperFrom(s, 1)

\* s.startswith(prefix)
startswith(s, prefix) ==
    Len(s) >= Len(prefix) /\ SubSeq(s, 1, Len(prefix)) = prefix

\* s.split(sep, 1)[-1]: what follows the first sep, or s when it has none
split1_last(s, sep) ==
    LET P == {i \in 1..Len(s) : CharAt(s, i) = sep}
    IN  IF P = {} THEN s
        ELSE SubSeq(s, (CHOOSE i \in P : \A j \in P : i <= j) + 1, Len(s))

\* os.path.basename(path)
basename(path) == LET parts == split(path, "/") IN parts[Len(parts)]

-----------------------------------------------------------------------------
(* capture.py: screenshot files *)

\* str(Path(SCREENSHOT_DIR) / f"profile_screenshot_{index}_{timestamp}.png")
ScreenshotPath(index, ts) ==
    "screenshots/profile_screenshot_" \o str(index) \o "_" \o ts \o ".png"

-----------------------------------------------------------------------------
(* image_utils.py: stitch_images *)

NoLayout == <<>>

\* extract_index: parts[1] of the Python code is parts[2] here (1-based)
extract_index(path) ==
    LET filename == basename(path)
        parts == split(filename, "_")
    IN  IF Len(parts) >= 2 /\ isdigit(parts[2]) THEN int(parts[2]) ELSE 999

\* the list ordered by the given keys, equal keys keeping their input order
StableSort(image_paths, key) ==
    LET n == Len(image_paths)
        rank(i) == 1 + Cardinality({j \in 1..n :
                        key[j] < key[i] \/ (key[j] = key[i] /\ j < i)})
    IN  [r \in 1..n |-> image_paths[CHOOSE i \in 1..n : rank(i) = r]]

\* sorted(image_paths, key=extract_index): Python's sort is stable and
\* computes each key once
sorted_paths_of(image_paths) ==
    CHOOSE s \in {StableSort(image_paths, key) :
                    key \in {[i \in 1..Len(image_paths) |->
                                extract_index(image_paths[i])]}} : TRUE

DefaultLayoutBroken(num_images) ==
    IF num_images <= 3 THEN <<1, num_images>>
    ELSE IF num_images = 4 THEN <<2, 2>> ELSE <<3, 2>>

\* the layout chosen when the caller gives none, as <<rows, cols>>
DefaultLayout(num_images) ==
    IF num_images <= 3 THEN <<1, num_images>> ELSE <<2, 3>>

\* the grid layout: the caller's when given, else the default
GridLayout(layout, num_images) ==
    IF layout /= NoLayout THEN layout ELSE DefaultLayout(num_images)

PasteLoopColumnMajor(sorted_paths, rows, cols, width, height, size) ==
    [k \in 1..Min(Len(sorted_paths), cols * rows) |->
        [img     |-> sorted_paths[k],
         x       |-> ((k - 1) \div rows) * width,
         y       |-> ((k - 1) % rows) * height,
         resized |-> size[sorted_paths[k]] /= <<width, height>>]]

\* the paste loop: image i (0-based) goes to row i // cols, column i % cols
PasteLoop(sorted_paths, rows, cols, width, height, size) ==
    [k \in 1..Min(Len(sorted_paths), cols * rows) |->
        [img     |-> sorted_paths[k],
         x       |-> ((k - 1) % cols) * width,
         y       |-> ((k - 1) \div cols) * height,
         resized |-> size[sorted_paths[k]] /= <<width, height>>]]

\* an access to the file system: the operation and the path it is applied to
FileEvent(op, path) == [op |-> op, at |-> <<path>>]

ProfileDir == "screenshots/profile_20240101"
StitchedPath == "screenshots/profile_20240101/profile_stitched_120000.png"

\* images = [Image.open(path) for path in sorted_paths]; when the files
\* cannot be loaded the first open raises
LoadImages(sorted_paths, fs) ==
    IF fs.loadable
    THEN [k \in 1..Len(sorted_paths) |-> FileEvent("open", sorted_paths[k])]
    ELSE <<FileEvent("open", sorted_paths[1])>>

DeleteOriginalsStops(sorted_paths, fs) ==
    LET stop == IF \E k \in 1..Len(sorted_paths) : sorted_paths[k] \in fs.locked
                THEN CHOOSE k \in 1..Len(sorted_paths) :
                        /\ sorted_paths[k] \in fs.locked
                        /\ \A j \in 1..(k - 1) : sorted_paths[j] \notin fs.locked
                ELSE Len(sorted_paths)
    IN  [k \in 1..stop |->
            FileEvent(IF sorted_paths[k] \in fs.locked THEN "remove_failed"
                      ELSE "remove", sorted_paths[k])]

\* for path in sorted_paths: try os.remove(path), a failure is logged
DeleteOriginals(sorted_paths, fs) ==
    [k \in 1..Len(sorted_paths) |->
        FileEvent(IF sorted_paths[k] \in fs.locked THEN "remove_failed"
                  ELSE "remove", sorted_paths[k])]

\* stitch_images after the sort: layout, load, resize, paste, save, delete
StitchSorted(sorted_paths, delete_originals, layout, size, fs) ==
    LET num_images == Len(sorted_paths)
        grid == GridLayout(layout, num_images)
        rows == grid[1]
        cols == grid[2]
        loaded == LoadImages(sorted_paths, fs)
        saving == loaded \o <<FileEvent("mkdir", ProfileDir)>>
    IN  IF num_images = 0
        THEN [raised |-> "IndexError", effects |-> <<>>]
        ELSE IF ~fs.loadable
        THEN [raised |-> "OSError", effects |-> loaded]
        ELSE IF ~fs.savable
        THEN [raised |-> "OSError", effects |-> saving]
        ELSE LET width == size[sorted_paths[1]][1]
                 height == size[sorted_paths[1]][2]
             IN  [raised  |-> "none",
                  rows    |-> rows,
                  cols    |-> cols,
                  canvas  |-> <<width * cols, height * rows>>,
                  pastes  |-> PasteLoop(sorted_paths, rows, cols,
                                        width, height, size),
                  effects |-> saving \o <<FileEvent("save", StitchedPath)>>
                              \o (IF delete_originals
                                  THEN DeleteOriginals(sorted_paths, fs)
                                  ELSE <<>>),
                  path    |-> StitchedPath]

TooFewImagesNever(image_paths) == Len(image_paths) < 0

\* len(image_paths) < 1
TooFewImages(image_paths) == Len(image_paths) < 1

\* stitch_images(image_paths, delete_originals=..., layout=...); size maps a
\* path to the pixel size of the image stored there, fs tells whether the
\* files can be loaded, whether the composite can be saved and which files
\* cannot be removed
stitch_images(image_paths, delete_originals, layout, size, fs) ==
    IF TooFewImages(image_paths)
    THEN [raised |-> "ValueError", effects |-> <<>>]
    ELSE CHOOSE r \in {StitchSorted(sorted_paths, delete_originals, layout,
                                    size, fs) :
                        sorted_paths \in {sorted_paths_of(image_paths)}} : TRUE

\* a file system where every load, save and removal succeeds
SoundFiles == [loadable |-> TRUE, savable |-> TRUE, locked |-> {}]

-----------------------------------------------------------------------------
(* Inputs of stitch_images called on its own *)

SampleTimestamp == "20240101_120000"
BaseSize == <<2, 4>>
OddSize == <<3, 5>>
StitchLayouts == {NoLayout, <<2, 2>>, <<2, 3>>, <<1, 2>>}

\* the list of screenshots with the given indices, in the given order; image
\* number odd (if any) has a size of its own
StitchArgs(indices, layout, odd, delete_originals, fs) ==
    LET n == Len(indices)
    IN  [op          |-> "stitch_images",
         indices     |-> indices,
         image_paths |-> [i \in 1..n |-> ScreenshotPath(indices[i], SampleTimestamp)],
         layout      |-> layout,
         delete_originals |-> delete_originals,
         fs          |-> fs,
         size        |-> [p \in {ScreenshotPath(i, SampleTimestamp) : i \in 1..n} |->
                            IF p = ScreenshotPath(odd, SampleTimestamp)
                            THEN OddSize ELSE BaseSize]]

\* orders in which k screenshots are listed: ascending, descending, rotated
\* by one, and each exchange of two neighbours
SampleOrders(k) ==
    {[i \in 1..k |-> i], [i \in 1..k |-> k + 1 - i], [i \in 1..k |-> (i % k) + 1]}
    \cup {[i \in 1..k |-> IF i = j THEN j + 1 ELSE IF i = j + 1 THEN j ELSE i] :
            j \in 1..(k - 1)}

\* file systems: sound, files that cannot be loaded, a composite that cannot
\* be saved, a first screenshot that cannot be removed
FileSystems ==
    {SoundFiles,
     [loadable |-> FALSE, savable |-> TRUE, locked |-> {}],
     [loadable |-> TRUE, savable |-> FALSE, locked |-> {}],
     [loadable |-> TRUE, savable |-> TRUE,
      locked |-> {ScreenshotPath(1, SampleTimestamp)}]}

StitchInputs ==
    UNION {{StitchArgs(order, layout, odd, delete_originals, fs) :
                order \in SampleOrders(k), layout \in StitchLayouts,
                odd \in {0, 1, k}, delete_originals \in BOOLEAN,
                fs \in FileSystems}
           : k \in 0..MaxImages}

-----------------------------------------------------------------------------
(* Values of the variables an operation does not use *)

Idle == [op |-> "none"]

OrchestratorIdle ==
    /\ num_scrolls = 0
    /\ bbox = None
    /\ screenshot_paths = <<>>
    /\ timestamp = ""
    /\ loop_i = 0
    /\ events = <<>>
    /\ cs_ret = Idle
    /\ ps_ret = Idle
    /\ run = Idle

orch_vars == <<num_scrolls, bbox, screenshot_paths, timestamp, loop_i, events,
               cs_ret, ps_ret, run>>
env_vars == <<ENVIRONMENT, SCREEN_WIDTH, SCREEN_HEIGHT>>

-----------------------------------------------------------------------------
(* Specification of stitch_images called on its own *)

InitStitch ==
    /\ ENVIRONMENT = "MONITOR"
    /\ SCREEN_WIDTH = 2511
    /\ SCREEN_HEIGHT = 1051
    /\ pc = "call"
    /\ args \in StitchInputs
    /\ ret = Idle
    /\ OrchestratorIdle

StitchCall ==
    /\ pc = "call"
    /\ args.op = "stitch_images"
    /\ ret' = stitch_images(args.image_paths, args.delete_originals,
                            args.layout, args.size, args.fs)
    /\ pc' = "done"
    /\ UNCHANGED <<args, env_vars, orch_vars>>

NextStitch == StitchCall

SpecStitch == InitStitch /\ [][NextStitch]_vars

StitchDone == pc = "done" /\ args.op = "stitch_images" /\ ret.raised = "none"

\* the same screenshots listed in ascending order of their embedded index
AscendingPaths(indices) ==
    [i \in 1..Len(indices) |-> ScreenshotPath(i, SampleTimestamp)]

\* C2: stitching a list of screenshots taken by take_high_quality_screenshot
\* pastes the same images at the same places as stitching the same
\* screenshots listed in ascending index order, whatever the order of the list
C2_OrderIndependent ==
    StitchDone =>
        \E asc \in {stitch_images(AscendingPaths(args.indices), FALSE,
                                  args.layout, args.size, SoundFiles)} :
            ret.pastes = asc.pastes

\* the image that comes first when the list is ordered by extract_index
FirstSorted(image_paths) ==
    LET n == Len(image_paths)
        First(key) == CHOOSE i \in 1..n : \A j \in 1..n :
                         key[i] < key[j] \/ (key[i] = key[j] /\ i <= j)
    IN  CHOOSE p \in {image_paths[First(key)] :
                        key \in {[i \in 1..n |-> extract_index(image_paths[i])]}} : TRUE

CanvasOfFirst ==
    \E first \in {FirstSorted(args.image_paths)} :
        ret.canvas = <<ret.cols * args.size[first][1],
                       ret.rows * args.size[first][2]>>

\* C3 as stated: with no layout 6 images give a 2x3 grid and 4 images a 2x2
\* grid, and the canvas is cols*width by rows*height of the first image
C3_Original ==
    (StitchDone /\ args.layout = NoLayout) =>
        /\ Len(args.image_paths) = 6 => (ret.rows = 2 /\ ret.cols = 3)
        /\ Len(args.image_paths) = 4 => (ret.rows = 2 /\ ret.cols = 2)
        /\ CanvasOfFirst

\* C3 amended: with no layout 6 images and 4 images both give a 2x3 grid,
\* and the canvas is cols*width by rows*height of the first image in sorted
\* order
C3_DefaultLayout ==
    (StitchDone /\ args.layout = NoLayout) =>
        /\ Len(args.image_paths) = 6 => (ret.rows = 2 /\ ret.cols = 3)
        /\ Len(args.image_paths) = 4 => (ret.rows = 2 /\ ret.cols = 3)
        /\ CanvasOfFirst

C3_Witness ==
    /\ StitchDone
    /\ args.layout = NoLayout
    /\ Len(args.image_paths) = 4
    /\ args.size[args.image_paths[1]] = OddSize
    /\ ret.canvas = <<9, 10>>

-----------------------------------------------------------------------------
(* scroll.py: module configuration *)

Environments == {"MONITOR", "PRO", "AIR", "MAC", "VISUAL"}

\* the display sizes pyautogui.size() reports
ScreenSizes == {<<1440, 900>>, <<1920, 1080>>, <<2560, 1440>>, <<2560, 1080>>}

\* SCREEN_WIDTH, SCREEN_HEIGHT as set at import for the environment
ScreenConfig(screens) ==
    /\ ENVIRONMENT \in Environments
    /\ IF ENVIRONMENT = "MONITOR"
       THEN SCREEN_WIDTH = 2511 /\ SCREEN_HEIGHT = 1051
       ELSE \E screen \in screens :
                SCREEN_WIDTH = screen[1] /\ SCREEN_HEIGHT = screen[2]

IPHONE_X_BEGIN ==
    CASE ENVIRONMENT = "MONITOR" -> 2304 [] ENVIRONMENT = "PRO" -> 935
      [] ENVIRONMENT = "AIR" -> 815
IPHONE_Y_BEGIN ==
    CASE ENVIRONMENT = "MONITOR" -> 617 [] ENVIRONMENT = "PRO" -> 330
      [] ENVIRONMENT = "AIR" -> 260
IPHONE_X_END ==
    CASE ENVIRONMENT = "MONITOR" -> 2500 [] ENVIRONMENT = "PRO" -> 1139
      [] ENVIRONMENT = "AIR" -> 1018
IPHONE_Y_END ==
    CASE ENVIRONMENT = "MONITOR" -> 1042 [] ENVIRONMENT = "PRO" -> 739
      [] ENVIRONMENT = "AIR" -> 575
IPHONE_WIDTH == IPHONE_X_END - IPHONE_X_BEGIN
IPHONE_HEIGHT == IPHONE_Y_END - IPHONE_Y_BEGIN

NEXT_PHOTO_POS == IF ENVIRONMENT = "AIR" THEN <<974, 410>> ELSE None

FIRST_SCROLL_AMOUNT == -520
SUBSEQUENT_SCROLL_AMOUNT == -720
UP_SCROLL_AMOUNT == 600
STEPS_PER_SCROLL == 10
SCROLL_DELAY == 200
STEP_DELAY == 10

-----------------------------------------------------------------------------
(* scroll.py: get_safe_coordinates *)

margin == 50

ClampNoMargin(v, dimension) == Max(0, Min(v, dimension))

\* max(margin, min(v, dimension - margin))
Clamp(v, dimension) == Max(margin, Min(v, dimension - margin))

get_safe_coordinates(x, y) ==
    LET safe_x == Clamp(x, SCREEN_WIDTH)
        safe_y == Clamp(y, SCREEN_HEIGHT)
    IN  [raised |-> "none",
         value  |-> <<safe_x, safe_y>>,
         warned |-> safe_x /= x \/ safe_y /= y]

\* displays for the coordinate guard, two of them narrower or lower than
\* twice the margin
GuardScreens == ScreenSizes \cup {<<120, 100>>, <<80, 60>>, <<99, 700>>}

GuardXs == {-10, 0, 49, 50, 51, 974, SCREEN_WIDTH - 51, SCREEN_WIDTH - 50,
            SCREEN_WIDTH - 49, SCREEN_WIDTH, SCREEN_WIDTH + 10}
GuardYs == {-10, 0, 49, 50, 51, 410, SCREEN_HEIGHT - 51, SCREEN_HEIGHT - 50,
            SCREEN_HEIGHT - 49, SCREEN_HEIGHT + 10}

InitGuard ==
    /\ ScreenConfig(GuardScreens)
    /\ pc = "call"
    /\ args \in {[op |-> "get_safe_coordinates", x |-> x, y |-> y] :
                    x \in GuardXs, y \in GuardYs}
    /\ ret = Idle
    /\ OrchestratorIdle

GuardCall ==
    /\ pc = "call"
    /\ args.op = "get_safe_coordinates"
    /\ ret' = get_safe_coordinates(args.x, args.y)
    /\ pc' = "done"
    /\ UNCHANGED <<args, env_vars, orch_vars>>

NextGuard == GuardCall

SpecGuard == InitGuard /\ [][NextGuard]_vars

GuardDone == pc = "done" /\ args.op = "get_safe_coordinates"

\* C4 as stated: for every point and every display size the point returned
\* lies in [50, W - 50] x [50, H - 50], and a value is always returned
C4_Original ==
    GuardDone =>
        /\ ret.raised = "none"
        /\ 50 <= ret.value[1] /\ ret.value[1] <= SCREEN_WIDTH - 50
        /\ 50 <= ret.value[2] /\ ret.value[2] <= SCREEN_HEIGHT - 50

\* C4 amended: a value is always returned, each coordinate is at least 50,
\* and on every axis whose display dimension is at least 100 (twice the
\* margin) the coordinate is at most the dimension minus 50
C4_SafeWithinMargins ==
    GuardDone =>
        /\ ret.raised = "none"
        /\ 50 <= ret.value[1] /\ 50 <= ret.value[2]
        /\ SCREEN_WIDTH >= 100 => ret.value[1] <= SCREEN_WIDTH - 50
        /\ SCREEN_HEIGHT >= 100 => ret.value[2] <= SCREEN_HEIGHT - 50

C4_Witness ==
    /\ GuardDone
    /\ SCREEN_WIDTH = 1440 /\ SCREEN_HEIGHT = 900
    /\ args.x = 1450 /\ args.y = -10
    /\ ret.value = <<1390, 50>>
    /\ ret.warned

-----------------------------------------------------------------------------
(* gpt.py: like_or_pass *)

NoKeyReason == "ERROR: API Key not set (Defaulting to LIKE)"
NoReasonProvided == "(No reason provided by AI)"
UnparseableReason == "AI response unparseable or refusal; defaulting to LIKE."
ErrorReasonPrefix == "Error during API call/parsing; defaulting to LIKE: "

Decisions == {"LIKE", "PASS"}

LabelValueKeepsLabel(line) == strip(line)

\* line.split(":", 1)[-1].strip()
LabelValue(line) == strip(split1_last(line, ":"))

\* the branch for len(lines) >= 2
ParseTwoLines(decision_line, reason_line) ==
    LET extracted_decision == LabelValue(decision_line)
        decision_parsed == /\ startswith(decision_line, "DECISION:")
                           /\ extracted_decision \in Decisions
        reason_labelled == startswith(reason_line, "REASON:")
        reason_parsed   == reason_labelled \/ decision_parsed
    IN  [decision |-> IF decision_parsed THEN extracted_decision ELSE "LIKE",
         reason   |-> IF reason_labelled THEN LabelValue(reason_line)
                      ELSE IF decision_parsed THEN reason_line
                      ELSE "Could not parse AI response.",
         parsing_successful |-> decision_parsed /\ reason_parsed]

\* the branch for len(lines) = 1 (split never returns an empty list)
ParseSingleLine(single_line) ==
    IF single_line \in Decisions
    THEN [decision |-> single_line, reason |-> NoReasonProvided,
          parsing_successful |-> TRUE]
    ELSE IF startswith(single_line, "DECISION:")
            /\ LabelValue(single_line) \in Decisions
    THEN [decision |-> LabelValue(single_line), reason |-> NoReasonProvided,
          parsing_successful |-> TRUE]
    ELSE [decision |-> "LIKE", reason |-> "Could not parse AI response.",
          parsing_successful |-> FALSE]

ParseLines(lines) ==
    LET parsed == IF Len(lines) >= 2
                  THEN ParseTwoLines(upper(strip(lines[1])), strip(lines[2]))
                  ELSE ParseSingleLine(upper(strip(lines[1])))
    IN  IF parsed.parsing_successful
        THEN [raised |-> "none", decision |-> parsed.decision,
              reason |-> parsed.reason]
        ELSE [raised |-> "none", decision |-> "LIKE",
              reason |-> UnparseableReason]

\* the parse of full_response = message.content.strip()
ParseResponse(full_response) ==
    CHOOSE r \in {ParseLines(lines) : lines \in {split(full_response, "\n")}} :
        TRUE

\* the try block: optimize_image, encode_image, the API call, the parse
LikeOrPassTry(fault, has_content, content) ==
    IF fault /= "none" THEN [raised |-> fault]
    ELSE IF ~has_content THEN [raised |-> "AttributeError"]
    ELSE ParseResponse(strip(content))

LikeOrPassExceptReraises(outcome) == outcome

\* except Exception as e
LikeOrPassExcept(outcome) ==
    IF outcome.raised /= "none"
    THEN [raised |-> "none", decision |-> "LIKE",
          reason |-> ErrorReasonPrefix \o outcome.raised]
    ELSE outcome

like_or_pass(api_key, fault, has_content, content) ==
    IF ~api_key
    THEN [raised |-> "none", decision |-> "LIKE", reason |-> NoKeyReason]
    ELSE LikeOrPassExcept(LikeOrPassTry(fault, has_content, content))

-----------------------------------------------------------------------------
(* responses of the model, each with the reading its author intends *)

FirstLine(text, form, token) == [text |-> text, form |-> form, token |-> token]

FirstLines ==
    { FirstLine("LIKE", "bare", "LIKE"),
      FirstLine("PASS", "bare", "PASS"),
      FirstLine("pass", "bare", "PASS"),
      FirstLine("Like ", "bare", "LIKE"),
      FirstLine("DECISION: LIKE", "labelled", "LIKE"),
      FirstLine("DECISION: PASS", "labelled", "PASS"),
      FirstLine("decision:pass", "labelled", "PASS"),
      FirstLine("Decision:  Like ", "labelled", "LIKE"),
      FirstLine("DECISION: MAYBE", "garbage", ""),
      FirstLine("DECISION PASS", "garbage", ""),
      FirstLine("PASS.", "garbage", ""),
      FirstLine("I'm sorry, I can't help with that.", "garbage", ""),
      FirstLine("", "garbage", "") }

RestLines(text, count, labelled, reason) ==
    [text |-> text, count |-> count, labelled |-> labelled, reason |-> reason]

Rests ==
    { RestLines("", 0, FALSE, ""),
      RestLines("\nREASON: slim and fit", 1, TRUE, "slim and fit"),
      RestLines("\nREASON:no beach photo", 1, TRUE, "no beach photo"),
      RestLines("\n REASON: age: 41 \nthird line", 2, TRUE, "age: 41"),
      RestLines("\nshe likes dogs", 1, FALSE, "she likes dogs"),
      RestLines("\n  two photos only\nREASON: late", 2, FALSE,
                "two photos only"),
      RestLines("\n\nREASON: after a blank line", 2, FALSE, "") }

Paddings == {<<"", "">>, <<" \n", "\n ">>}

LikeArgs(first, rest, padding, api_key, fault, has_content) ==
    [op |-> "like_or_pass", first |-> first, rest |-> rest,
     content |-> padding[1] \o first.text \o rest.text \o padding[2],
     api_key |-> api_key, fault |-> fault, has_content |-> has_content]

LikeFaults == {"optimize_image", "encode_image", "APIError"}

LikeInputs ==
    {LikeArgs(first, rest, padding, TRUE, "none", TRUE) :
        first \in FirstLines, rest \in Rests, padding \in Paddings}
    \cup {LikeArgs(FirstLine("DECISION: PASS", "labelled", "PASS"),
                   RestLines("\nREASON: slim and fit", 1, TRUE, "slim and fit"),
                   <<"", "">>, api_key, fault, has_content) :
            api_key \in BOOLEAN, fault \in LikeFaults \cup {"none"},
            has_content \in BOOLEAN}

InitParse ==
    /\ ScreenConfig(ScreenSizes)
    /\ ENVIRONMENT = "AIR"
    /\ pc = "call"
    /\ args \in LikeInputs
    /\ ret = Idle
    /\ OrchestratorIdle

ParseCall ==
    /\ pc = "call"
    /\ args.op = "like_or_pass"
    /\ ret' = like_or_pass(args.api_key, args.fault, args.has_content,
                           args.content)
    /\ pc' = "done"
    /\ UNCHANGED <<args, env_vars, orch_vars>>

NextParse == ParseCall

SpecParse == InitParse /\ [][NextParse]_vars

ParseDone == pc = "done" /\ args.op = "like_or_pass"

\* the API key is set, no call raised and the message has content
Answered == args.api_key /\ args.fault = "none" /\ args.has_content

\* C6: whenever the first line of the response, trimmed and uppercased, is
\* the bare token LIKE or PASS, like_or_pass returns that token, with or
\* without a reason line after it
C6_BareTokenAccepted ==
    (ParseDone /\ Answered /\ args.first.form = "bare") =>
        ret.raised = "none" /\ ret.decision = args.first.token

\* C7: for a response of two or more lines whose first line is DECISION: X
\* with X in {LIKE, PASS}, like_or_pass returns decision X, and its reason is
\* the text after REASON: when the second line carries that label and the
\* whole (trimmed) second line otherwise
C7_LabelledDecision ==
    (ParseDone /\ Answered /\ args.first.form = "labelled"
        /\ args.rest.count >= 1) =>
        /\ ret.raised = "none"
        /\ ret.decision = args.first.token
        /\ ret.reason = args.rest.reason

C7_Witness ==
    /\ ParseDone /\ Answered
    /\ args.first.text = "decision:pass"
    /\ args.rest.labelled /\ args.rest.count = 2
    /\ ret.decision = "PASS" /\ ret.reason = "age: 41"

FailureReasons ==
    {NoKeyReason, UnparseableReason}
    \cup {ErrorReasonPrefix \o e : e \in LikeFaults \cup {"AttributeError"}}

-----------------------------------------------------------------------------
(* scroll.py: get_hardcoded_window;  window.py: find_iphone_window *)

HardcodedEnvironments == {"MONITOR", "PRO", "AIR"}

get_hardcoded_window ==
    IF ENVIRONMENT \in HardcodedEnvironments
    THEN [raised |-> "none", detection |-> "hardcoded",
          value |-> <<IPHONE_X_BEGIN, IPHONE_Y_BEGIN,
                      IPHONE_WIDTH, IPHONE_HEIGHT>>]
    ELSE [raised |-> "NotImplementedError"]

\* 0.3 < w / h < 0.6
PhoneRatio(w, h) == 3 * h < 10 * w /\ 10 * w < 6 * h

BorderMatchTwoEdges(contour) ==
    /\ 4 <= contour.points /\ contour.points <= 8
    /\ contour.rect[4] > contour.rect[3] /\ contour.rect[4] > 200
    /\ PhoneRatio(contour.rect[3], contour.rect[4])
    /\ contour.white_edges >= 2

\* the test of the first pass on one contour: polygon points, bounding
\* rectangle, number of edges whose mean grey level exceeds 230
BorderMatch(contour) ==
    /\ 4 <= contour.points /\ contour.points <= 8
    /\ contour.rect[4] > contour.rect[3] /\ contour.rect[4] > 200
    /\ PhoneRatio(contour.rect[3], contour.rect[4])
    /\ contour.white_edges >= 3

\* the test of the second pass on one contour
ContentMatch(contour) ==
    /\ contour.rect[4] > contour.rect[3] /\ contour.rect[4] > 300
    /\ PhoneRatio(contour.rect[3], contour.rect[4])

\* sorted(contours2, key=cv2.contourArea, reverse=True)[:5]
LargestFive(contours2) ==
    LET sorted == StableSort(contours2,
                             [i \in 1..Len(contours2) |-> 0 - contours2[i].area])
    IN  SubSeq(sorted, 1, Min(5, Len(sorted)))

EstimatedWindowThird(screen_width, screen_height) ==
    LET estimated_width  == screen_width \div 3
        estimated_height == (estimated_width * 13) \div 6
    IN  <<(screen_width - estimated_width) \div 2,
          (screen_height - estimated_height) \div 2,
          estimated_width, estimated_height>>

\* the centred estimate used when both passes find nothing
EstimatedWindow(screen_width, screen_height) ==
    LET estimated_width  == screen_width \div 4
        estimated_height == (estimated_width * 13) \div 6
    IN  <<(screen_width - estimated_width) \div 2,
          (screen_height - estimated_height) \div 2,
          estimated_width, estimated_height>>

\* the first contour, in list order, that passes the test of its pass
FirstBorderMatch(contours) ==
    contours[CHOOSE i \in 1..Len(contours) :
                BorderMatch(contours[i])
                /\ \A j \in 1..(i - 1) : ~BorderMatch(contours[j])]

FirstContentMatch(contours) ==
    contours[CHOOSE i \in 1..Len(contours) :
                ContentMatch(contours[i])
                /\ \A j \in 1..(i - 1) : ~ContentMatch(contours[j])]

VisualDetection(scene) ==
    LET top == LargestFive(scene.contours2)
    IN  IF \E i \in 1..Len(scene.contours) : BorderMatch(scene.contours[i])
        THEN [raised |-> "none", detection |-> "border",
              value |-> FirstBorderMatch(scene.contours).rect]
        ELSE IF \E i \in 1..Len(top) : ContentMatch(top[i])
        THEN [raised |-> "none", detection |-> "content",
              value |-> FirstContentMatch(top).rect]
        ELSE [raised |-> "none", detection |-> "estimate",
              value |-> EstimatedWindow(SCREEN_WIDTH, SCREEN_HEIGHT)]

find_iphone_window(scene) ==
    IF ENVIRONMENT = "MONITOR" \/ ENVIRONMENT = "MAC"
    THEN get_hardcoded_window
    ELSE VisualDetection(scene)

-----------------------------------------------------------------------------
(* what the screen shows: the contours of the two thresholded images *)

Contour(points, rect, white_edges, area) ==
    [points |-> points, rect |-> rect, white_edges |-> white_edges,
     area |-> area]

PhoneContour == Contour(4, <<500, 100, 300, 650>>, 4, 195000)
DimContour   == Contour(6, <<520, 120, 280, 600>>, 2, 168000)
WideContour  == Contour(4, <<100, 100, 800, 400>>, 4, 320000)
RoundContour == Contour(12, <<40, 40, 150, 310>>, 4, 46500)
SmallContour == Contour(4, <<10, 10, 90, 190>>, 4, 17100)
TallContour  == Contour(8, <<900, 50, 320, 700>>, 3, 150000)

Scene(contours, contours2) == [contours |-> contours, contours2 |-> contours2]

EmptyScene == Scene(<<>>, <<>>)

Scenes ==
    { EmptyScene,
      Scene(<<WideContour, PhoneContour>>, <<WideContour, PhoneContour>>),
      Scene(<<DimContour>>, <<DimContour>>),
      Scene(<<RoundContour, SmallContour>>, <<SmallContour, RoundContour>>),
      Scene(<<SmallContour, WideContour>>, <<SmallContour, WideContour>>),
      Scene(<<DimContour, PhoneContour>>, <<PhoneContour, DimContour>>),
      Scene(<<WideContour, TallContour, PhoneContour>>,
            <<PhoneContour, TallContour>>),
      Scene(<<SmallContour>>,
            <<SmallContour, DimContour, WideContour, WideContour,
              WideContour, WideContour, WideContour>>) }

\* displays for the locator called on its own
LocateScreens == ScreenSizes \cup {<<1366, 768>>, <<1470, 956>>, <<1280, 800>>}

InitLocate ==
    /\ ScreenConfig(LocateScreens)
    /\ pc = "call"
    /\ args \in {[op |-> "find_iphone_window", scene |-> scene] :
                    scene \in Scenes}
               \cup {[op |-> "get_hardcoded_window", scene |-> EmptyScene]}
    /\ ret = Idle
    /\ OrchestratorIdle

LocateCall ==
    /\ pc = "call"
    /\ args.op = "find_iphone_window"
    /\ ret' = find_iphone_window(args.scene)
    /\ pc' = "done"
    /\ UNCHANGED <<args, env_vars, orch_vars>>

HardcodedCall ==
    /\ pc = "call"
    /\ args.op = "get_hardcoded_window"
    /\ ret' = get_hardcoded_window
    /\ pc' = "done"
    /\ UNCHANGED <<args, env_vars, orch_vars>>

NextLocate == LocateCall \/ HardcodedCall

SpecLocate == InitLocate /\ [][NextLocate]_vars

\* C9: in each environment with a configured rectangle (MONITOR, PRO, AIR)
\* find_iphone_window returns the rectangle of get_hardcoded_window, and
\* returns it without visual detection
C9_StaticRectangle ==
    (pc = "done" /\ args.op = "find_iphone_window"
        /\ ENVIRONMENT \in HardcodedEnvironments) =>
        /\ ret.raised = "none"
        /\ ret.detection = "hardcoded"
        /\ ret.value = get_hardcoded_window.value

LocateDone == pc = "done" /\ args.op = "find_iphone_window"

\* C11: find_iphone_window never raises and always returns a rectangle,
\* whatever the environment and whatever contours are on screen
C11_LocateNeverRaises ==
    LocateDone => ret.raised = "none" /\ Len(ret.value) = 4

\* neither pass accepts a contour of the scene
NoContourAccepted(scene) ==
    /\ \A i \in 1..Len(scene.contours) : ~BorderMatch(scene.contours[i])
    /\ \A i \in 1..Len(LargestFive(scene.contours2)) :
            ~ContentMatch(LargestFive(scene.contours2)[i])

\* int(width * 19.5 / 9): the largest integer h with h <= width * 13 / 6
PhoneHeight(width) ==
    CHOOSE h \in 0..(3 * width) : 6 * h <= 13 * width /\ 13 * width < 6 * (h + 1)

\* |w / h - 9 / 19.5| <= 0.1
NearPhoneRatio(w, h) ==
    /\ 10 * (13 * w - 6 * h) <= 13 * h
    /\ 10 * (6 * h - 13 * w) <= 13 * h

\* C12: when visual detection runs and neither pass accepts a contour,
\* find_iphone_window returns the rectangle of width W div 4, height
\* int(width * 19.5 / 9), x = (W - width) div 2, y = (H - height) div 2, and
\* its width/height ratio is within 0.1 of 9/19.5
C12_CentredEstimate ==
    (LocateDone /\ ENVIRONMENT \notin {"MONITOR", "MAC"}
        /\ NoContourAccepted(args.scene)) =>
        /\ ret.raised = "none"
        /\ ret.value[3] = SCREEN_WIDTH \div 4
        /\ ret.value[4] = PhoneHeight(ret.value[3])
        /\ 2 * ret.value[1] <= SCREEN_WIDTH - ret.value[3]
        /\ SCREEN_WIDTH - ret.value[3] <= 2 * ret.value[1] + 1
        /\ 2 * ret.value[2] <= SCREEN_HEIGHT - ret.value[4]
        /\ SCREEN_HEIGHT - ret.value[4] <= 2 * ret.value[2] + 1
        /\ NearPhoneRatio(ret.value[3], ret.value[4])

C12_Witness ==
    /\ LocateDone
    /\ ENVIRONMENT = "PRO" /\ SCREEN_WIDTH = 1366 /\ SCREEN_HEIGHT = 768
    /\ args.scene.contours /= <<>> /\ NoContourAccepted(args.scene)
    /\ ret.value = <<512, 15, 341, 738>>

-----------------------------------------------------------------------------
(* capture.py, capture_and_stitch.py, profile_processor.py *)

Event(op, at) == [op |-> op, at |-> at]

PointerOps == {"moveTo", "click", "scroll"}
CaptureOps == {"screenshot_region"}

\* take_high_quality_screenshot(bbox, index, timestamp)
take_high_quality_screenshot(box, index, ts) ==
    [path  |-> ScreenshotPath(index, ts),
     event |-> Event("screenshot_region", box \o <<index>>)]

\* time.sleep(seconds), in milliseconds
Sleep(ms) == Event("sleep", <<ms>>)

\* time.sleep(random.uniform(low, high)), in milliseconds
SleepUniform(low, high) == Event("sleep_uniform", <<low, high>>)

perform_stepped_scroll_rounding_up(amount) ==
    [k \in 1..(2 * STEPS_PER_SCROLL) |->
        IF k % 2 = 1
        THEN Event("scroll", <<0 - ((0 - amount) \div STEPS_PER_SCROLL)>>)
        ELSE Sleep(STEP_DELAY)]

\* perform_stepped_scroll(amount): step_size = amount // STEPS_PER_SCROLL, then
\* STEPS_PER_SCROLL times pyautogui.scroll(step_size) and a sleep of STEP_DELAY
perform_stepped_scroll(amount) ==
    [k \in 1..(2 * STEPS_PER_SCROLL) |->
        IF k % 2 = 1
        THEN Event("scroll", <<amount \div STEPS_PER_SCROLL>>)
        ELSE Sleep(STEP_DELAY)]

center_x == bbox[1] + bbox[3] \div 2
center_y == bbox[2] + bbox[4] \div 2

AirClicks == 3

AirScreenshotNumberFromOne(i) == i + 1

AirScreenshotNumber(i) == i + 2

ScrollScreenshotNumberRepeats(i) == i + 2

ScrollScreenshotNumber(i) == i + 3

stitch_layout_narrow ==
    IF ENVIRONMENT = "AIR" THEN <<2, 2>>
    ELSE <<2, (num_scrolls + 1) \div 2>>

\* (2, 2) if env == "AIR" else (2, (num_scrolls + 1 + 1) // 2)
stitch_layout ==
    IF ENVIRONMENT = "AIR" THEN <<2, 2>>
    ELSE <<2, (num_scrolls + 1 + 1) \div 2>>

CaptureReturn(stitched_path, paths, error) ==
    [op |-> "capture_and_stitch_profile", raised |-> "none",
     stitched_path |-> stitched_path, screenshot_paths |-> paths,
     error |-> error]

CaptureExceptReraises(e, paths) ==
    [op |-> "capture_and_stitch_profile", raised |-> e,
     stitched_path |-> None, screenshot_paths |-> <<>>, error |-> e]

\* except Exception as e: return None, screenshot_paths
CaptureExcept(e, paths) == CaptureReturn(None, paths, e)

ProcessReturn(stitched_path, box, error) ==
    [op |-> "process_single_profile", stitched_path |-> stitched_path,
     bbox |-> box, error |-> error]

\* delete_screenshots(paths) when keep_screenshots is off and paths exist
Cleanup(paths) ==
    IF ~args.keep_screenshots /\ paths /= <<>>
    THEN <<Event("delete_screenshots", <<Len(paths)>>)>>
    ELSE <<>>

CapturePcs == {"cs_focus", "cs_initial", "cs_air_click", "cs_air_capture",
               "cs_first_scroll", "cs_second_capture", "cs_scroll",
               "cs_scroll_capture", "cs_stitch"}

CaptureErrors == {"OSError", "FailSafeException"}

Init ==
    /\ ScreenConfig(ScreenSizes)
    /\ pc = "ps_locate"
    /\ args \in {[op |-> "process_single_profile",
                  keep_screenshots |-> keep, scene |-> scene] :
                    keep \in BOOLEAN,
                    scene \in IF ENVIRONMENT \in HardcodedEnvironments
                              THEN {EmptyScene} ELSE Scenes}
    /\ ret = Idle
    /\ num_scrolls \in 0..MaxScrolls
    /\ bbox = None
    /\ screenshot_paths = <<>>
    /\ timestamp = ""
    /\ loop_i = 0
    /\ events = <<>>
    /\ cs_ret = Idle
    /\ ps_ret = Idle
    /\ run = Idle

\* process_single_profile, step 1: the window rectangle
Locate ==
    /\ pc = "ps_locate"
    /\ \E found \in {IF ENVIRONMENT \in {"PRO", "AIR", "MONITOR"}
                     THEN get_hardcoded_window
                     ELSE find_iphone_window(args.scene)} :
          IF found.raised /= "none"
          THEN /\ ps_ret' = ProcessReturn(None, None, found.raised)
               /\ pc' = "done"
               /\ UNCHANGED <<bbox, events>>
          ELSE /\ bbox' = found.value
               /\ events' = IF found.detection = "hardcoded" THEN events
                            ELSE Append(events, Event("screenshot", <<>>))
               /\ pc' = "cs_focus"
               /\ UNCHANGED ps_ret
    /\ UNCHANGED <<args, ret, env_vars, run, num_scrolls, screenshot_paths, timestamp,
                   loop_i, cs_ret>>

\* capture_and_stitch_profile: the focus click on the window centre
FocusClick ==
    /\ pc = "cs_focus"
    /\ timestamp' = SampleTimestamp
    /\ events' = events \o <<Event("moveTo", <<center_x, center_y>>),
                             Event("click", <<center_x, center_y>>),
                             Sleep(1000), Sleep(200)>>
    /\ pc' = "cs_initial"
    /\ UNCHANGED <<args, ret, env_vars, run, num_scrolls, bbox, screenshot_paths,
                   loop_i, cs_ret, ps_ret>>

\* one screenshot appended to screenshot_paths
Capture(index, next_pc, next_i) ==
    /\ \E shot \in {take_high_quality_screenshot(bbox, index, timestamp)} :
          /\ screenshot_paths' = Append(screenshot_paths, shot.path)
          /\ events' = Append(events, shot.event)
    /\ pc' = next_pc
    /\ loop_i' = next_i
    /\ UNCHANGED <<args, ret, env_vars, run, num_scrolls, bbox, timestamp,
                   cs_ret, ps_ret>>

InitialCapture ==
    /\ pc = "cs_initial"
    /\ Capture(1, IF ENVIRONMENT = "AIR" THEN "cs_air_click"
                  ELSE "cs_first_scroll", 0)

\* for i in range(3): click the next-photo position
AirClick ==
    /\ pc = "cs_air_click"
    /\ \E safe \in {get_safe_coordinates(NEXT_PHOTO_POS[1],
                                         NEXT_PHOTO_POS[2])} :
          events' = events \o <<Event("click", safe.value),
                                 SleepUniform(500, 1500)>>
    /\ pc' = "cs_air_capture"
    /\ UNCHANGED <<args, ret, env_vars, run, num_scrolls, bbox, screenshot_paths,
                   timestamp, loop_i, cs_ret, ps_ret>>

AirCapture ==
    /\ pc = "cs_air_capture"
    /\ Capture(AirScreenshotNumber(loop_i),
               IF loop_i + 1 < AirClicks THEN "cs_air_click" ELSE "cs_stitch",
               loop_i + 1)

FirstScroll ==
    /\ pc = "cs_first_scroll"
    /\ events' = events \o perform_stepped_scroll(FIRST_SCROLL_AMOUNT)
                         \o <<Sleep(SCROLL_DELAY)>>
    /\ pc' = "cs_second_capture"
    /\ UNCHANGED <<args, ret, env_vars, run, num_scrolls, bbox, screenshot_paths,
                   timestamp, loop_i, cs_ret, ps_ret>>

SecondCapture ==
    /\ pc = "cs_second_capture"
    /\ Capture(2, IF 0 < num_scrolls - 1 THEN "cs_scroll" ELSE "cs_stitch", 0)

RefocusSkipped == <<>>

\* pyautogui.moveTo(center_x, center_y); pyautogui.click(); time.sleep(0.1)
Refocus == <<Event("moveTo", <<center_x, center_y>>),
             Event("click", <<center_x, center_y>>),
             Sleep(100)>>

\* for i in range(num_scrolls - 1): refocus and scroll
SubsequentScroll ==
    /\ pc = "cs_scroll"
    /\ events' = events \o Refocus
                         \o perform_stepped_scroll(SUBSEQUENT_SCROLL_AMOUNT)
                         \o <<Sleep(SCROLL_DELAY)>>
    /\ pc' = "cs_scroll_capture"
    /\ UNCHANGED <<args, ret, env_vars, run, num_scrolls, bbox, screenshot_paths,
                   timestamp, loop_i, cs_ret, ps_ret>>

ScrollCapture ==
    /\ pc = "cs_scroll_capture"
    /\ Capture(ScrollScreenshotNumber(loop_i),
               IF loop_i + 1 < num_scrolls - 1 THEN "cs_scroll"
               ELSE "cs_stitch",
               loop_i + 1)

Stitch ==
    /\ pc = "cs_stitch"
    /\ \E stitched \in {stitch_images(screenshot_paths, FALSE, stitch_layout,
                            [p \in {screenshot_paths[i] :
                                        i \in 1..Len(screenshot_paths)}
                                |-> BaseSize], SoundFiles)} :
          /\ ret' = stitched
          /\ cs_ret' = IF stitched.raised /= "none"
                       THEN CaptureExcept(stitched.raised, screenshot_paths)
                       ELSE CaptureReturn(stitched.path, screenshot_paths,
                                          "none")
    /\ pc' = "ps_after"
    /\ UNCHANGED <<args, env_vars, run, num_scrolls, bbox, screenshot_paths,
                   timestamp, loop_i, events, ps_ret>>

\* a pointer action, a screenshot or the stitching raises
CaptureRaises ==
    /\ pc \in CapturePcs
    /\ \E e \in CaptureErrors : cs_ret' = CaptureExcept(e, screenshot_paths)
    /\ pc' = "ps_after"
    /\ UNCHANGED <<args, ret, env_vars, run, num_scrolls, bbox, screenshot_paths,
                   timestamp, loop_i, events, ps_ret>>

\* process_single_profile after capture_and_stitch_profile
Finish ==
    /\ pc = "ps_after"
    /\ IF cs_ret.raised /= "none"
       THEN /\ ps_ret' = ProcessReturn(None, bbox, cs_ret.raised)
            /\ UNCHANGED events
       ELSE /\ ps_ret' = ProcessReturn(cs_ret.stitched_path, bbox, cs_ret.error)
            /\ events' = events \o Cleanup(cs_ret.screenshot_paths)
    /\ pc' = "done"
    /\ UNCHANGED <<args, ret, env_vars, run, num_scrolls, bbox, screenshot_paths,
                   timestamp, loop_i, cs_ret>>

Next ==
    \/ Locate
    \/ FocusClick
    \/ InitialCapture
    \/ AirClick
    \/ AirCapture
    \/ FirstScroll
    \/ SecondCapture
    \/ SubsequentScroll
    \/ ScrollCapture
    \/ Stitch
    \/ CaptureRaises
    \/ Finish

Spec == Init /\ [][Next]_vars

-----------------------------------------------------------------------------
(* scroll.py: perform_stepped_scroll called on its own *)

\* the amounts of the configuration and every small amount of either sign
ScrollAmounts ==
    {FIRST_SCROLL_AMOUNT, SUBSEQUENT_SCROLL_AMOUNT, UP_SCROLL_AMOUNT}
    \cup ((0 - MaxAmount)..MaxAmount)

InitScroll ==
    /\ ScreenConfig(ScreenSizes)
    /\ pc = "call"
    /\ args \in {[op |-> "perform_stepped_scroll", amount |-> amount] :
                    amount \in ScrollAmounts}
    /\ ret = Idle
    /\ OrchestratorIdle

ScrollCall ==
    /\ pc = "call"
    /\ args.op = "perform_stepped_scroll"
    /\ ret' = [raised |-> "none",
               effects |-> perform_stepped_scroll(args.amount)]
    /\ pc' = "done"
    /\ UNCHANGED <<args, env_vars, orch_vars>>

SpecScroll == InitScroll /\ [][ScrollCall]_vars

ScrollDone == pc = "done" /\ args.op = "perform_stepped_scroll"

\* C24: perform_stepped_scroll(amount) issues exactly STEPS_PER_SCROLL scroll
\* events, each of the floor of amount / 10 and each followed by a delay,
\* and nothing else
C24_TenEqualSteps ==
    ScrollDone =>
        /\ Len(ret.effects) = 2 * 10
        /\ \A k \in 1..10 :
              /\ ret.effects[2 * k - 1].op = "scroll"
              /\ \E q \in (0 - 100)..100 :
                    /\ 10 * q <= args.amount
                    /\ args.amount < 10 * q + 10
                    /\ ret.effects[2 * k - 1].at = <<q>>
              /\ ret.effects[2 * k].op = "sleep"

\* a negative amount that is no multiple of 10: the step is rounded down
C24_Witness ==
    /\ ScrollDone
    /\ args.amount = 0 - 25
    /\ ret.effects[1] = Event("scroll", <<0 - 3>>)

-----------------------------------------------------------------------------
(* cli.py: run in like mode; ads.py: check_for_ads; like.py: like_photo *)

SecondsPerMinute == 60

LIKE_BUTTON == IF ENVIRONMENT = "AIR" THEN <<955, 580>> ELSE None
PASS_BUTTON == IF ENVIRONMENT = "AIR" THEN <<880, 580>> ELSE None

\* pyautogui.click on the guarded position of a button
ButtonClick(button) ==
    Event("click", get_safe_coordinates(button[1], button[2]).value)

\* if ENVIRONMENT == "AIR" and PASS_BUTTON: click it, else a placeholder
PassClick == IF ENVIRONMENT = "AIR" THEN <<ButtonClick(PASS_BUTTON)>> ELSE <<>>

\* what happens during one ad check: the text the classifier answers, the
\* fault if any (no API key, a failing API call, a failing screenshot), and
\* whether os.remove of the temporary screenshot succeeds
AdOutcomes ==
    {[answer |-> a, fault |-> f, removable |-> r] :
        a \in {"YES", "NO", " yes", "MAYBE"},
        f \in {"none", "api_key", "api_call", "screenshot"},
        r \in BOOLEAN}

gpt_check_ads_defaults_to_yes(answer, fault) ==
    IF fault = "api_key" THEN "ERROR_API_KEY"
    ELSE IF fault = "api_call" THEN "ERROR_API_CALL"
    ELSE "YES"

\* gpt_check_ads(image_path): decision = content.strip().upper(), YES or NO
\* as answered, NO for any other text, an ERROR_ value for a fault
gpt_check_ads(answer, fault) ==
    IF fault = "api_key" THEN "ERROR_API_KEY"
    ELSE IF fault = "api_call" THEN "ERROR_API_CALL"
    ELSE LET decision == upper(strip(answer))
         IN  IF decision \in {"YES", "NO"} THEN decision ELSE "NO"

\* check_for_ads(iteration_index, debug): the window, the temporary
\* screenshot, the answer of gpt_check_ads, and in the finally clause the
\* removal of the screenshot; leftover tells whether the file still exists
check_for_ads(iteration_index, outcome) ==
    LET window == get_hardcoded_window
    IN  IF window.raised /= "none" \/ outcome.fault = "screenshot"
        THEN [raised |-> "none", result |-> "ERROR", effects |-> <<>>,
              leftover |-> FALSE]
        ELSE LET shot == take_high_quality_screenshot(
                             window.value, iteration_index, SampleTimestamp)
                 decision == gpt_check_ads(outcome.answer, outcome.fault)
             IN  [raised   |-> "none",
                  result   |-> IF decision \in {"YES", "NO"} THEN decision
                               ELSE "ERROR",
                  effects  |-> <<shot.event, Sleep(500),
                                 Event(IF outcome.removable THEN "remove"
                                       ELSE "remove_failed",
                                       <<iteration_index>>)>>,
                  leftover |-> ~outcome.removable]

\* what like_or_pass answers (an unexpected value included), the draw of
\* random.random() in hundredths, and where an exception is raised, if any
LikeOutcomes ==
    {[ai_decision |-> d, like_probability |-> p, failure |-> f] :
        d \in Decisions \cup {"MAYBE"}, p \in {0, 94, 95, 99},
        f \in {"none", "classifier", "click"}}

FinalActionNoOverride(ai_decision, like_probability) ==
    IF ai_decision = "LIKE" THEN "LIKE" ELSE "PASS"

\* step 2 of like_photo: LIKE when like_or_pass said LIKE and the draw is
\* below 0.95, PASS otherwise
FinalAction(ai_decision, like_probability) ==
    IF ai_decision = "LIKE"
    THEN IF like_probability < 95 THEN "LIKE" ELSE "PASS"
    ELSE "PASS"

\* like_photo(stitched_image_path, debug): the decision, the click under AIR;
\* on an exception (raised by like_or_pass, or by the click before it acts)
\* the fallback PASS click
like_photo(outcome) ==
    LET decided == FinalAction(outcome.ai_decision, outcome.like_probability)
    IN  IF outcome.failure = "classifier"
        THEN [raised |-> "none", final_action |-> "PASS",
              effects |-> PassClick]
        ELSE IF outcome.failure = "click" /\ ENVIRONMENT = "AIR"
        THEN [raised |-> "none", final_action |-> "PASS",
              effects |-> <<Event("decision", <<decided>>)>> \o PassClick]
        ELSE [raised |-> "none", final_action |-> decided,
              effects |-> <<Event("decision", <<decided>>)>>
                          \o (IF ENVIRONMENT = "AIR"
                              THEN <<ButtonClick(IF decided = "LIKE"
                                                 THEN LIKE_BUTTON
                                                 ELSE PASS_BUTTON)>>
                              ELSE <<>>)]

DeadlinePassedLate(now, end_time) == now > end_time

\* if time.time() >= end_time: break
DeadlinePassed(now, end_time) == now >= end_time

ProfileFailedNever(stitched_path) == FALSE

\* if not stitched_path: ... continue
ProfileFailed(stitched_path) == stitched_path = None

RunScreens == {<<1440, 900>>}

InitLike ==
    /\ ScreenConfig(ScreenSizes)
    /\ pc = "call"
    /\ args \in {[op |-> "like_photo", outcome |-> outcome] :
                    outcome \in LikeOutcomes}
    /\ ret = Idle
    /\ OrchestratorIdle

LikeCall ==
    /\ pc = "call"
    /\ args.op = "like_photo"
    /\ ret' = like_photo(args.outcome)
    /\ pc' = "done"
    /\ UNCHANGED <<args, env_vars, orch_vars>>

SpecLike == InitLike /\ [][LikeCall]_vars

InitAds ==
    /\ ScreenConfig(RunScreens)
    /\ pc = "call"
    /\ args \in {[op |-> "check_for_ads", iteration_index |-> i,
                  outcome |-> outcome] :
                    i \in 1..MaxIterations, outcome \in AdOutcomes}
    /\ ret = Idle
    /\ OrchestratorIdle

AdsCall ==
    /\ pc = "call"
    /\ args.op = "check_for_ads"
    /\ ret' = check_for_ads(args.iteration_index, args.outcome)
    /\ pc' = "done"
    /\ UNCHANGED <<args, env_vars, orch_vars>>

SpecAds == InitAds /\ [][AdsCall]_vars

RunArgs ==
    {[op |-> "run", mode |-> "like", keep_screenshots |-> keep,
      scene |-> EmptyScene, duration |-> duration,
      num_iterations |-> num_iterations] :
        keep \in BOOLEAN, duration \in 0..MaxDuration,
        num_iterations \in 1..MaxIterations}

\* start_time = time.time(); end_time = start_time + duration * 60
InitRun ==
    /\ ScreenConfig(RunScreens)
    /\ pc = "run_check"
    /\ args \in RunArgs
    /\ ret = Idle
    /\ num_scrolls \in (MaxScrolls - 1)..MaxScrolls
    /\ bbox = None
    /\ screenshot_paths = <<>>
    /\ timestamp = ""
    /\ loop_i = 0
    /\ events = <<>>
    /\ cs_ret = Idle
    /\ ps_ret = Idle
    /\ run = [op |-> "run", now |-> 0,
              end_time |-> 0 + args.duration * SecondsPerMinute,
              i |-> 0, iterations_completed |-> 0,
              started |-> <<>>, finished |-> <<>>, status |-> "running"]

\* the final status printed after the loop
FinalStatus(iterations_completed, num_iterations) ==
    IF iterations_completed < num_iterations
    THEN "finished_early_due_to_time_limit"
    ELSE "finished_all_iterations"

\* the end of the body of the for loop: the outcome of the iteration
IterationEnds(outcome, completed) ==
    [run EXCEPT !.finished = Append(@, [at |-> run.now, outcome |-> outcome]),
                !.iterations_completed = @ + completed]

\* for i in range(num_iterations): the deadline test, then the iteration;
\* after the loop the final status
RunCheck ==
    /\ pc = "run_check"
    /\ IF run.i >= args.num_iterations
          \/ DeadlinePassed(run.now, run.end_time)
       THEN /\ pc' = "run_end"
            /\ run' = [run EXCEPT !.status =
                          FinalStatus(run.iterations_completed,
                                      args.num_iterations)]
            /\ UNCHANGED <<ret, bbox, screenshot_paths, timestamp,
                           loop_i, events, cs_ret, ps_ret>>
       ELSE /\ pc' = "run_ads"
            /\ run' = [run EXCEPT !.started = Append(@, run.now)]
            /\ ret' = Idle
            /\ bbox' = None
            /\ screenshot_paths' = <<>>
            /\ timestamp' = ""
            /\ loop_i' = 0
            /\ events' = <<>>
            /\ cs_ret' = Idle
            /\ ps_ret' = Idle
    /\ UNCHANGED <<args, env_vars, num_scrolls>>

\* step 0: the ad check; an ad is passed and the iteration ends
RunAds ==
    /\ pc = "run_ads"
    /\ \E outcome \in AdOutcomes :
          \E ad \in {check_for_ads(run.i + 1, outcome)} :
             IF ad.result = "YES"
             THEN /\ events' = events \o ad.effects \o PassClick
                  /\ run' = IterationEnds("ad", 0)
                  /\ pc' = "run_pause"
             ELSE /\ events' = events \o ad.effects
                  /\ pc' = "run_window"
                  /\ UNCHANGED run
    /\ UNCHANGED <<args, ret, env_vars, num_scrolls, bbox, screenshot_paths,
                   timestamp, loop_i, cs_ret, ps_ret>>

\* bbox = get_hardcoded_window(), then the call of process_single_profile;
\* an exception ends the iteration in the except clause of the loop
RunWindow ==
    /\ pc = "run_window"
    /\ IF get_hardcoded_window.raised /= "none"
       THEN /\ run' = IterationEnds("error", 1)
            /\ pc' = "run_pause"
       ELSE /\ pc' = "ps_locate"
            /\ UNCHANGED run
    /\ UNCHANGED <<args, ret, env_vars, num_scrolls, bbox, screenshot_paths,
                   timestamp, loop_i, events, cs_ret, ps_ret>>

\* the return of process_single_profile in the loop
AfterProfile ==
    /\ pc = "done"
    /\ run.op = "run"
    /\ IF ProfileFailed(ps_ret.stitched_path)
       THEN /\ run' = IterationEnds("capture_failed", 0)
            /\ pc' = "run_pause"
       ELSE /\ pc' = "run_like"
            /\ UNCHANGED run
    /\ UNCHANGED <<args, ret, env_vars, num_scrolls, bbox, screenshot_paths,
                   timestamp, loop_i, events, cs_ret, ps_ret>>

\* step 5: like_photo(stitched_path, debug)
LikePhoto ==
    /\ pc = "run_like"
    /\ \E outcome \in LikeOutcomes :
          events' = events \o like_photo(outcome).effects
    /\ run' = IterationEnds("decided", 1)
    /\ pc' = "run_pause"
    /\ UNCHANGED <<args, ret, env_vars, num_scrolls, bbox, screenshot_paths,
                   timestamp, loop_i, cs_ret, ps_ret>>

\* time.sleep(pause_duration), then the next value of i
RunPause ==
    /\ pc = "run_pause"
    /\ run' = [run EXCEPT !.i = @ + 1]
    /\ pc' = "run_check"
    /\ UNCHANGED <<args, ret, env_vars, num_scrolls, bbox, screenshot_paths,
                   timestamp, loop_i, events, cs_ret, ps_ret>>

\* where the run sleeps or waits for an answer
TickPcs == {"run_ads", "cs_initial", "run_like", "run_pause"}

\* the wall clock advances while the run sleeps
Tick ==
    /\ run.op = "run"
    /\ pc \in TickPcs
    /\ run.now < (MaxDuration + 1) * SecondsPerMinute
    /\ run' = [run EXCEPT !.now = @ + SecondsPerMinute]
    /\ UNCHANGED <<pc, args, ret, env_vars, num_scrolls, bbox,
                   screenshot_paths, timestamp, loop_i, events, cs_ret,
                   ps_ret>>

NextRun ==
    \/ RunCheck
    \/ RunAds
    \/ RunWindow
    \/ Locate
    \/ FocusClick
    \/ InitialCapture
    \/ AirClick
    \/ AirCapture
    \/ FirstScroll
    \/ SecondCapture
    \/ SubsequentScroll
    \/ ScrollCapture
    \/ Stitch
    \/ CaptureRaises
    \/ Finish
    \/ AfterProfile
    \/ LikePhoto
    \/ RunPause
    \/ Tick

SpecRun == InitRun /\ [][NextRun]_vars

-----------------------------------------------------------------------------
(* scroll.py: validate_bbox *)

\* validate_bbox(bbox): the configured rectangle under MONITOR, PRO and AIR;
\* otherwise the rectangle itself when its size is positive and its origin is
\* on the screen, and else what get_hardcoded_window() does
validate_bbox(box) ==
    IF ENVIRONMENT \in {"MONITOR", "PRO", "AIR"}
    THEN get_hardcoded_window
    ELSE IF \/ box[3] <= 0 \/ box[4] <= 0
            \/ box[1] < 0 \/ box[2] < 0
            \/ box[1] >= SCREEN_WIDTH \/ box[2] >= SCREEN_HEIGHT
    THEN get_hardcoded_window
    ELSE [raised |-> "none", detection |-> "given", value |-> box]

\* rectangles on the screen, off the screen, and without a size
BoxSamples ==
    {<<x, y, w, h>> : x \in {0 - 1, 0, 540, SCREEN_WIDTH},
                      y \in {0 - 153, 60, SCREEN_HEIGHT},
                      w \in {0, 360}, h \in {0 - 5, 780}}

InitValidate ==
    /\ ScreenConfig(RunScreens)
    /\ pc = "call"
    /\ args \in {[op |-> "validate_bbox", bbox |-> box] : box \in BoxSamples}
    /\ ret = Idle
    /\ OrchestratorIdle

ValidateCall ==
    /\ pc = "call"
    /\ args.op = "validate_bbox"
    /\ ret' = validate_bbox(args.bbox)
    /\ pc' = "done"
    /\ UNCHANGED <<args, env_vars, orch_vars>>

SpecValidate == InitValidate /\ [][ValidateCall]_vars

ValidateDone == pc = "done" /\ args.op = "validate_bbox"

\* the rectangle has a positive size and its origin is on the screen
ValidBox(box) ==
    /\ box[3] > 0 /\ box[4] > 0
    /\ box[1] >= 0 /\ box[2] >= 0
    /\ box[1] < SCREEN_WIDTH /\ box[2] < SCREEN_HEIGHT

\* C28: without a hardcoded window validate_bbox returns a valid rectangle
\* unchanged, and for an invalid one it returns a valid replacement instead
\* of raising
C28_InvalidBoxReplaced ==
    (ValidateDone /\ ENVIRONMENT \notin {"MONITOR", "PRO", "AIR"}) =>
        /\ ret.raised = "none"
        /\ ValidBox(args.bbox) => ret.value = args.bbox
        /\ ~ValidBox(args.bbox) => ValidBox(ret.value)

-----------------------------------------------------------------------------
(* cli.py: run in opener mode *)

\* the parameters of process_single_profile, none of which has a default
ProcessParameters ==
    {"env", "num_scrolls", "logger", "console", "keep_screenshots", "debug"}

\* the keyword arguments of the call in opener mode
OpenerArguments ==
    {"env", "num_scrolls", "logger", "console", "keep_screenshots"}

InitOpener ==
    /\ ScreenConfig(ScreenSizes)
    /\ pc = "opener_call"
    /\ args \in {[op |-> "run", mode |-> "opener", keep_screenshots |-> keep,
                  scene |-> EmptyScene, send_message |-> send] :
                    keep \in BOOLEAN, send \in BOOLEAN}
    /\ ret = Idle
    /\ num_scrolls \in 0..MaxScrolls
    /\ bbox = None
    /\ screenshot_paths = <<>>
    /\ timestamp = ""
    /\ loop_i = 0
    /\ events = <<>>
    /\ cs_ret = Idle
    /\ ps_ret = Idle
    /\ run = [op |-> "opener", raised |-> "none", status |-> "running"]

\* stitched_path, bbox = process_single_profile(...): Python binds the
\* arguments to the parameters before the body runs, and raises TypeError
\* when a parameter without a default gets no argument
OpenerCall ==
    /\ pc = "opener_call"
    /\ IF ProcessParameters \subseteq OpenerArguments
       THEN /\ pc' = "ps_locate"
            /\ UNCHANGED run
       ELSE /\ pc' = "opener_except"
            /\ run' = [run EXCEPT !.raised = "TypeError"]
    /\ UNCHANGED <<args, ret, env_vars, num_scrolls, bbox, screenshot_paths,
                   timestamp, loop_i, events, cs_ret, ps_ret>>

\* except Exception as e: log, print, raise typer.Exit(code=1)
OpenerExcept ==
    /\ pc = "opener_except"
    /\ run' = [run EXCEPT !.status = "exit_1"]
    /\ pc' = "opener_end"
    /\ UNCHANGED <<args, ret, env_vars, num_scrolls, bbox, screenshot_paths,
                   timestamp, loop_i, events, cs_ret, ps_ret>>

NextOpener == OpenerCall \/ OpenerExcept

SpecOpener == InitOpener /\ [][NextOpener]_vars

\* C30: in opener mode, in an environment where window location, capture
\* and stitching can succeed, a run that has ended has called
\* process_single_profile with all its parameters, got its result and
\* called generate_opener
C30_OpenerGenerated ==
    (run.op = "opener" /\ pc = "opener_end"
     /\ ENVIRONMENT \in {"MONITOR", "PRO", "AIR"}) =>
        /\ run.raised /= "TypeError"
        /\ ps_ret.op = "process_single_profile"
        /\ \E k \in 1..Len(events) : events[k].op = "generate_opener"

-----------------------------------------------------------------------------
(* message.py: send_opener *)

MAX_MESSAGE_LENGTH == 200

TruncateKeepsLength(opener) ==
    IF Len(opener) > MAX_MESSAGE_LENGTH
    THEN SubSeq(opener, 1, MAX_MESSAGE_LENGTH) \o "..."
    ELSE opener

\* opener[:MAX_MESSAGE_LENGTH - 3] + "..." when the opener is too long
Truncate(opener) ==
    IF Len(opener) > MAX_MESSAGE_LENGTH
    THEN SubSeq(opener, 1, MAX_MESSAGE_LENGTH - 3) \o "..."
    ELSE opener

\* send_opener(opener, bbox): click on the input field, type, click on send
send_opener(opener, box) ==
    IF opener = ""
    THEN [raised |-> "none", effects |-> <<>>]
    ELSE LET input_x == box[1] + (box[3] \div 2)
             input_y == box[2] + ((box[4] * 9) \div 10)
         IN  [raised  |-> "none",
              effects |-> <<Event("click", <<input_x, input_y>>),
                            SleepUniform(500, 1000),
                            Event("typewrite", <<Truncate(opener)>>),
                            SleepUniform(500, 1000),
                            Event("click", <<box[1] + box[3] - 40,
                                             input_y>>)>>]

\* the opener of n characters
RECURSIVE Opener(_)
Opener(n) ==
    IF n = 0 THEN ""
    ELSE LET half == Opener(n \div 2)
         IN  half \o half \o (IF n % 2 = 1 THEN "a" ELSE "")

MessageBoxes == {<<100, 100, 400, 800>>, <<935, 330, 204, 409>>}

InitMessage ==
    /\ ScreenConfig(RunScreens)
    /\ pc = "call"
    /\ args \in {[op |-> "send_opener", opener |-> Opener(n), bbox |-> box] :
                    n \in 0..MaxOpenerLength, box \in MessageBoxes}
    /\ ret = Idle
    /\ OrchestratorIdle

MessageCall ==
    /\ pc = "call"
    /\ args.op = "send_opener"
    /\ ret' = send_opener(args.opener, args.bbox)
    /\ pc' = "done"
    /\ UNCHANGED <<args, env_vars, orch_vars>>

SpecMessage == InitMessage /\ [][MessageCall]_vars

MessageDone == pc = "done" /\ args.op = "send_opener"

\* C25: the text send_opener types has at most MAX_MESSAGE_LENGTH (200)
\* characters, and for the empty opener it types nothing and clicks nothing
C25_TypedTextBounded ==
    MessageDone =>
        /\ \A k \in 1..Len(ret.effects) :
              ret.effects[k].op = "typewrite" =>
                  Len(ret.effects[k].at[1]) <= 200
        /\ args.opener = "" => ret.effects = <<>>
        /\ args.opener /= "" =>
              \E k \in 1..Len(ret.effects) : ret.effects[k].op = "typewrite"

\* an opener of more than 200 characters is typed as 200 characters
C25_Witness ==
    /\ MessageDone
    /\ Len(args.opener) > 200
    /\ Len(ret.effects) = 5
    /\ Len(ret.effects[3].at[1]) = 200

CaptureSucceeded ==
    cs_ret.op = "capture_and_stitch_profile" /\ cs_ret.stitched_path /= None

\* the paths whose embedded indices are 1, 2, ..., n in ascending order
IndexedPaths(n) == [i \in 1..n |-> ScreenshotPath(i, timestamp)]

CaptureFailed ==
    cs_ret.op = "capture_and_stitch_profile" /\ cs_ret.error /= "none"

\* C5 as stated: an exception raised by a screenshot or a pointer action
\* inside capture_and_stitch_profile propagates to its caller
C5_Original == CaptureFailed => cs_ret.raised = cs_ret.error

\* C5 amended: an exception raised inside capture_and_stitch_profile is
\* caught there; the function returns normally with no stitched path and the
\* list of the screenshots captured before the exception
C5_ErrorReturned ==
    CaptureFailed =>
        /\ cs_ret.raised = "none"
        /\ cs_ret.stitched_path = None
        /\ cs_ret.screenshot_paths = screenshot_paths

C5_Witness ==
    /\ CaptureFailed
    /\ cs_ret.error = "OSError"
    /\ cs_ret.raised = "none"
    /\ Len(cs_ret.screenshot_paths) = 2
    /\ pc = "done" /\ ps_ret.stitched_path = None /\ ps_ret.bbox = bbox

\* C10: when the environment is none of MONITOR, PRO, AIR, no pointer action
\* and no capture of a window rectangle happens, and processing ends with
\* the unsupported-environment error of get_hardcoded_window
C10_UnknownEnvironmentFails ==
    ENVIRONMENT \notin HardcodedEnvironments =>
        /\ \A i \in 1..Len(events) :
                events[i].op \notin PointerOps \cup CaptureOps
        /\ pc = "done" => ps_ret.error = "NotImplementedError"

\* C13: every rectangle the locator hands to the capture steps has positive
\* width and height and lies within the display
C13_WindowWithinDisplay ==
    pc \in CapturePcs =>
        /\ bbox[3] > 0 /\ bbox[4] > 0
        /\ bbox[1] >= 0 /\ bbox[2] >= 0
        /\ bbox[1] + bbox[3] <= SCREEN_WIDTH
        /\ bbox[2] + bbox[4] <= SCREEN_HEIGHT

\* C19: the layout capture_and_stitch_profile passes to stitch_images has
\* at least as many cells as screenshots were captured, for every num_scrolls
\* and both strategies, and every captured screenshot is in the composite
C19_LayoutCoversCaptures ==
    /\ pc = "cs_stitch" =>
            stitch_layout[1] * stitch_layout[2] >= Len(screenshot_paths)
    /\ CaptureSucceeded =>
            /\ ret.rows * ret.cols >= Len(screenshot_paths)
            /\ \A k \in 1..Len(screenshot_paths) :
                    \E i \in 1..Len(ret.pastes) :
                        ret.pastes[i].img = screenshot_paths[k]

C19_Witness ==
    /\ CaptureSucceeded
    /\ ENVIRONMENT = "MONITOR" /\ num_scrolls = 3
    /\ ret.rows = 2 /\ ret.cols = 2
    /\ Len(ret.pastes) = 4

\* the distance scrolled by the scroll events from position i on, counting
\* the downward (sign = -1) or the upward (sign = 1) ones
RECURSIVE ScrollDistance(_, _, _)
ScrollDistance(evs, i, sign) ==
    IF i > Len(evs) THEN 0
    ELSE (IF evs[i].op = "scroll" /\ sign * evs[i].at[1] > 0
          THEN sign * evs[i].at[1] ELSE 0)
         + ScrollDistance(evs, i + 1, sign)

\* C15: when a scroll-strategy sequence has made its last capture and the
\* profile is processed, the upward scrolls issued cover at least the
\* downward distance scrolled during the sequence
C15_ScrollsBackUp ==
    (pc = "done" /\ ENVIRONMENT /= "AIR" /\ CaptureSucceeded) =>
        ScrollDistance(events, 1, 1) >= ScrollDistance(events, 1, 0 - 1)

\* a click on the like or the pass button
IsButtonClick(e) ==
    /\ e.op = "click"
    /\ ENVIRONMENT = "AIR"
    /\ e \in {ButtonClick(LIKE_BUTTON), ButtonClick(PASS_BUTTON)}

\* C16: in like mode every iteration starts before the deadline
\* start + duration * 60, and every iteration that started has run to its end
\* when the loop is back at its head or has ended, whatever the clock says
C16_DeadlineBetweenIterations ==
    run.op = "run" =>
        /\ \A k \in 1..Len(run.started) : run.started[k] < run.end_time
        /\ pc \in {"run_check", "run_end"} =>
               Len(run.finished) = Len(run.started)
        /\ pc \notin {"run_check", "run_end", "run_pause"} =>
               Len(run.finished) + 1 = Len(run.started)

\* an iteration that started before the deadline made its decision after it
C16_Witness ==
    /\ run.op = "run"
    /\ pc = "run_end"
    /\ \E k \in 1..Len(run.finished) :
          /\ run.started[k] < run.end_time
          /\ run.finished[k].at >= run.end_time
          /\ run.finished[k].outcome = "decided"

SequenceEvents ==
    SelectSeq(events,
              LAMBDA e : e.op \notin {"screenshot", "delete_screenshots"})

IsPrefix(a, b) == Len(a) <= Len(b) /\ a = SubSeq(b, 1, Len(a))

CaptureEvent(index) == Event("screenshot_region", bbox \o <<index>>)

CentreClick == <<Event("moveTo", <<bbox[1] + (bbox[3] \div 2),
                                   bbox[2] + (bbox[4] \div 2)>>),
                 Event("click", <<bbox[1] + (bbox[3] \div 2),
                                  bbox[2] + (bbox[4] \div 2)>>)>>

\* one scroll action of the given amount: STEPS_PER_SCROLL scroll events,
\* each followed by its step delay
ScrollAction(amount) ==
    [k \in 1..(2 * STEPS_PER_SCROLL) |->
        IF k % 2 = 1 THEN Event("scroll", <<amount \div STEPS_PER_SCROLL>>)
        ELSE Event("sleep", <<STEP_DELAY>>)]

\* the further steps k..n of a scroll-strategy sequence
RECURSIVE FurtherSteps(_, _)
FurtherSteps(k, n) ==
    IF k > n THEN <<>>
    ELSE CentreClick \o <<Event("sleep", <<100>>)>>
         \o ScrollAction(SUBSEQUENT_SCROLL_AMOUNT)
         \o <<Event("sleep", <<SCROLL_DELAY>>), CaptureEvent(k + 2)>>
         \o FurtherSteps(k + 1, n)

ScrollStrategyEvents(N) ==
    CentreClick \o <<Event("sleep", <<1000>>), Event("sleep", <<200>>)>>
    \o <<CaptureEvent(1)>>
    \o ScrollAction(FIRST_SCROLL_AMOUNT)
    \o <<Event("sleep", <<SCROLL_DELAY>>), CaptureEvent(2)>>
    \o FurtherSteps(1, N - 1)

InSequence ==
    pc \in CapturePcs \/ cs_ret.op = "capture_and_stitch_profile"

\* C21: in a scroll-strategy sequence the events issued so far are always a
\* prefix of: focus click at the centre, settle delay, capture 1, first
\* scroll, delay, capture 2, then per further step a re-click of the centre,
\* one scroll of SUBSEQUENT_SCROLL_AMOUNT, a delay and one capture; a
\* successful sequence has issued all of them
C21_ScrollSequenceOrdered ==
    (ENVIRONMENT /= "AIR" /\ InSequence) =>
        /\ IsPrefix(SequenceEvents, ScrollStrategyEvents(num_scrolls))
        /\ CaptureSucceeded =>
               SequenceEvents = ScrollStrategyEvents(num_scrolls)

\* a successful scroll-strategy sequence with two further steps
C21_Witness ==
    /\ ENVIRONMENT /= "AIR"
    /\ pc = "done"
    /\ CaptureSucceeded
    /\ num_scrolls = 3
    /\ Len(SequenceEvents) > 0

\* the events of a paging sequence with n clicks on the next photo
RECURSIVE PagingSteps(_, _)
PagingSteps(k, n) ==
    IF k > n THEN <<>>
    ELSE <<Event("click", get_safe_coordinates(974, 410).value),
           Event("sleep_uniform", <<500, 1500>>),
           CaptureEvent(k + 1)>>
         \o PagingSteps(k + 1, n)

PagingStrategyEvents ==
    CentreClick \o <<Event("sleep", <<1000>>), Event("sleep", <<200>>)>>
    \o <<CaptureEvent(1)>>
    \o PagingSteps(1, 3)

\* C22: under AIR the events issued so far are always a prefix of: focus
\* click at the centre, capture 1, then three times a click at the guarded
\* next-photo position, a delay drawn from [0.5, 1.5] s and one capture; a
\* successful sequence has issued all of them, and no event is a scroll
C22_PagingSequence ==
    (ENVIRONMENT = "AIR" /\ InSequence) =>
        /\ IsPrefix(SequenceEvents, PagingStrategyEvents)
        /\ CaptureSucceeded => SequenceEvents = PagingStrategyEvents
        /\ \A k \in 1..Len(events) : events[k].op /= "scroll"

\* a successful paging sequence: four captures and three clicks
C22_Witness ==
    /\ ENVIRONMENT = "AIR"
    /\ pc = "done"
    /\ CaptureSucceeded
    /\ Len(cs_ret.screenshot_paths) = 4
    /\ Len(SequenceEvents) = 14

\* the conditions of Stage A on one contour
StageAAccepts(c) ==
    /\ c.points \in 4..8
    /\ c.rect[4] > c.rect[3]
    /\ c.rect[4] > 200
    /\ 3 * c.rect[4] < 10 * c.rect[3] /\ 10 * c.rect[3] < 6 * c.rect[4]
    /\ c.white_edges >= 3

VisualLocateDone ==
    LocateDone /\ ENVIRONMENT \notin {"MONITOR", "MAC"}

\* C23: in visual mode Stage A returns exactly the bounding rectangle of the
\* first contour, in contour order, with 4 to 8 polygon points, height >
\* width, height > 200, 0.3 < width / height < 0.6 and at least 3 white edge
\* strips; Stage B and the estimate answer only when no contour has them all
C23_FirstBorderedContour ==
    VisualLocateDone =>
        LET contours == args.scene.contours
            accepted == {i \in 1..Len(contours) : StageAAccepts(contours[i])}
        IN  IF accepted /= {}
            THEN /\ ret.raised = "none"
                 /\ ret.detection = "border"
                 /\ \E i \in accepted :
                       /\ \A j \in accepted : i <= j
                       /\ ret.value = contours[i].rect
            ELSE ret.detection \in {"content", "estimate"}

\* two contours pass Stage A and the earlier, smaller one is returned
C23_Witness ==
    /\ VisualLocateDone
    /\ Len(args.scene.contours) = 3
    /\ ~StageAAccepts(args.scene.contours[1])
    /\ StageAAccepts(args.scene.contours[2])
    /\ StageAAccepts(args.scene.contours[3])
    /\ ret.value = <<900, 50, 320, 700>>

LikeDone == pc = "done" /\ args.op = "like_photo"

\* the clicks like_photo issued on the like button
LikeClicks ==
    {k \in 1..Len(ret.effects) :
        ret.effects[k].op = "click"
        /\ ret.effects[k].at = get_safe_coordinates(955, 580).value}

AdsDone == pc = "done" /\ args.op = "check_for_ads"

\* the ad check took its screenshot
AdScreenshotTaken ==
    \E k \in 1..Len(ret.effects) : ret.effects[k].op = "screenshot_region"

\* the answer of the ad check follows what the classifier said
AdAnswerFaithful ==
    /\ ret.raised = "none"
    /\ ret.result \in {"YES", "NO", "ERROR"}
    /\ ret.result = "YES" =>
          /\ args.outcome.answer \in {"YES", " yes"}
          /\ args.outcome.fault = "none"
    /\ args.outcome.fault /= "none" => ret.result = "ERROR"
    /\ ENVIRONMENT \notin {"MONITOR", "PRO", "AIR"} => ret.result = "ERROR"

\* C27 as stated: check_for_ads never raises, answers YES, NO or ERROR, and
\* on every return path the temporary screenshot has been removed
C27_Original ==
    AdsDone => AdAnswerFaithful /\ ~ret.leftover

\* C27 amended: check_for_ads never raises and answers YES, NO or ERROR (YES
\* only after a YES of the classifier, ERROR after every fault); whenever it
\* took the screenshot it calls os.remove on it exactly once before it
\* returns, and the file is left behind only when that os.remove fails
C27_ScreenshotRemovalAttempted ==
    AdsDone =>
        /\ AdAnswerFaithful
        /\ AdScreenshotTaken =>
              /\ ret.effects[Len(ret.effects)].op \in {"remove", "remove_failed"}
              /\ \A k \in 1..(Len(ret.effects) - 1) :
                    ret.effects[k].op \notin {"remove", "remove_failed"}
        /\ ret.leftover <=>
              (AdScreenshotTaken /\ ~args.outcome.removable)

\* the API call fails after the screenshot was taken, and the file is removed
C27_Witness ==
    /\ AdsDone
    /\ args.outcome.fault = "api_call"
    /\ args.outcome.removable
    /\ ret.result = "ERROR"
    /\ AdScreenshotTaken
    /\ ~ret.leftover

RunEnded == run.op = "run" /\ pc = "run_end"

\* C29: like mode reports that it finished early due to the time limit only
\* when the deadline test stopped the loop; when all num_iterations
\* iterations were started, ads and failed profiles included, it reports
\* that all iterations finished
C29_EarlyOnlyAtDeadline ==
    RunEnded =>
        /\ run.status = "finished_early_due_to_time_limit" =>
              (run.i < args.num_iterations
               /\ DeadlinePassed(run.now, run.end_time))
        /\ Len(run.started) = args.num_iterations =>
              run.status = "finished_all_iterations"

-----------------------------------------------------------------------------
(* Properties of stitch_images called on its own *)

StitchReturned == pc = "done" /\ args.op = "stitch_images"

\* C14: stitch_images called with an empty list raises ValueError before it
\* opens, writes or deletes a file or creates a directory
C14_EmptyListRejected ==
    (StitchReturned /\ Len(args.image_paths) = 0) =>
        ret.raised = "ValueError" /\ ret.effects = <<>>

C14_Witness ==
    /\ StitchReturned
    /\ Len(args.image_paths) = 0
    /\ args.delete_originals /\ args.layout = <<2, 3>>
    /\ ret.raised = "ValueError"

\* the pixel position of the cell with 0-based position p in a grid of cols
\* columns whose cells are width by height
CellAt(p, cols, width, height) == <<(p % cols) * width, (p \div cols) * height>>

RowMajor(sorted, pastes, rows, cols, width, height) ==
    /\ Len(pastes) = Min(Len(sorted), rows * cols)
    /\ \A i \in 1..Len(pastes) :
            /\ pastes[i].img = sorted[i]
            /\ <<pastes[i].x, pastes[i].y>> = CellAt(i - 1, cols, width, height)
    /\ \A i, j \in 1..Len(pastes) :
            i /= j => <<pastes[i].x, pastes[i].y>> /= <<pastes[j].x, pastes[j].y>>
    /\ \A p \in Len(sorted)..(rows * cols - 1) :
            \A i \in 1..Len(pastes) :
                <<pastes[i].x, pastes[i].y>> /= CellAt(p, cols, width, height)

\* C18: for every layout and every list of k images, the image at sorted
\* position i is pasted into cell (i div cols, i mod cols) for each
\* i < min(k, rows*cols), no two images share a cell, every cell at position
\* >= k stays blank and the images at positions >= rows*cols are dropped
C18_RowMajorPaste ==
    StitchDone =>
        \E sorted \in {sorted_paths_of(args.image_paths)} :
            RowMajor(sorted, ret.pastes, ret.rows, ret.cols,
                     args.size[sorted[1]][1], args.size[sorted[1]][2])

C18_Witness ==
    /\ StitchDone
    /\ args.layout = <<2, 3>> /\ Len(args.image_paths) = 5
    /\ Len(ret.pastes) = 5
    /\ ret.pastes[4].x = 0 /\ ret.pastes[4].y = 4
    /\ ret.pastes[5].x = 2 /\ ret.pastes[5].y = 4

RemovalOps == {"remove", "remove_failed"}

\* C20: stitch_images removes source files only when delete_originals is set
\* and only after the composite is saved; when loading or saving fails or the
\* flag is off nothing is removed; a removal that fails is not raised, the
\* remaining files are still removed and the composite path is returned
C20_DeleteAfterSave ==
    StitchReturned =>
        /\ \A i \in 1..Len(ret.effects) :
                ret.effects[i].op \in RemovalOps =>
                    /\ args.delete_originals
                    /\ ret.raised = "none"
                    /\ \E j \in 1..(i - 1) : ret.effects[j].op = "save"
        /\ (args.delete_originals /\ args.fs.loadable /\ args.fs.savable
                /\ Len(args.image_paths) >= 1) =>
                /\ ret.raised = "none"
                /\ ret.path = StitchedPath
                /\ \A k \in 1..Len(args.image_paths) :
                        \E i \in 1..Len(ret.effects) :
                            ret.effects[i] =
                                FileEvent(IF args.image_paths[k] \in args.fs.locked
                                          THEN "remove_failed" ELSE "remove",
                                          args.image_paths[k])

C20_Witness ==
    /\ StitchReturned
    /\ args.delete_originals /\ ret.raised = "none"
    /\ \E i, j \in 1..Len(ret.effects) :
            /\ i < j
            /\ ret.effects[i].op = "remove_failed"
            /\ ret.effects[j].op = "remove"

====
